---- MODULE Spec2Model ----
(***************************************************************************)
(* State-machine model of SwiftCommentRemover (remove_swift_comments.py).  *)
(* The source text is a sequence of one-character strings; the cursor      *)
(* self.i is kept 0-based as in the Python code, so the character under    *)
(* the cursor is source[i + 1].  self.result is a list of chunks, each     *)
(* chunk the text of one _append call.                                     *)
(***************************************************************************)
EXTENDS Integers, Sequences, FiniteSets, TLC

VARIABLES
    source,               \* self.source
    result,               \* self.result: list of appended chunks
    i,                    \* self.i
    length,               \* self.length
    current_state,        \* self.current_state
    state_stack,          \* self.state_stack: list of StateContext
    nesting_level,        \* self.nesting_level
    current_hash_count,   \* self.current_hash_count
    current_quote_count,  \* self.current_quote_count
    interpolation_depth,  \* self.interpolation_depth
    brace_depth,          \* self.brace_depth
    bracket_depth,        \* self.bracket_depth
    line_had_content,     \* self.line_had_content
    pc,                   \* position in remove_comments: idle / loop / done / raised
    raised,               \* the exception raised by the running call, or "none"
    origin,               \* history: self.i at each _append, one entry per chunk
    calls,                \* history: number of remove_comments calls started
    prev,                 \* history: source, output and origins of the previous call
    openers,              \* history: comment openers recognized by this call
    literals,             \* history: the string literals open at the cursor
    comment_at,           \* history: source indices consumed as comment text
    cut_newlines,         \* history: newlines consumed with a comment
    comment_opened_in,    \* history: the state in which the open comment began
    regex_opened_in,      \* history: the state in which the open regex literal began
    driver,               \* the batch driver running: test_project / process_directory
    swift_files,          \* the files the driver's glob found
    file_no,              \* the number of loop iterations the driver has started
    stats,                \* test_project: stats
    failed_files,         \* test_project: failed_files
    driver_pc,            \* position in the driver: idle / loop / summary / done / raised
    attempted             \* history: the files the driver opened, in order

vars == <<source, result, i, length, current_state, state_stack, nesting_level,
          current_hash_count, current_quote_count, interpolation_depth,
          brace_depth, bracket_depth, line_had_content, pc, raised, origin,
          calls, prev, openers, literals, comment_at, cut_newlines,
          comment_opened_in, regex_opened_in, driver, swift_files, file_no,
          stats,
          failed_files, driver_pc, attempted>>

\* the variables of the batch drivers
driver_vars ==
    <<driver, swift_files, file_no, stats, failed_files, driver_pc, attempted>>

-----------------------------------------------------------------------------
(* Characters *)

SLASH == "/"
STAR == "*"
HASH == "#"
QUOTE == "\""
BACKSLASH == "\\"
NEWLINE == "\n"
SPACE == " "
TAB == "\t"
CR == "\r"
LPAREN == "("
RPAREN == ")"
LBRACE == "{"
RBRACE == "}"
LBRACKET == "["
RBRACKET == "]"

\* the ParseState members that share _handle_normal_or_interpolation
CodeStates == {"NORMAL", "IN_INTERPOLATION"}

\* the ParseState members that share _handle_any_string
StringStates == {"STRING", "MULTILINE_STRING"}

\* the ParseState members in which input is discarded
CommentStates == {"SINGLE_LINE_COMMENT", "MULTI_LINE_COMMENT"}

\* no comment opener recognized yet
NoOpeners == [line |-> 0, block |-> 0, regex |-> 0]

\* no newline consumed with a comment yet
NoNewlines == [inside |-> 0, after |-> 0]

\* stats as test_project initialises it, for a given number of files
NewStats(total) ==
    [total |-> total, success |-> 0, failed |-> 0,
     total_original_size |-> 0, total_cleaned_size |-> 0,
     total_original_lines |-> 0, total_cleaned_lines |-> 0]

\* Optional[str] None, as returned by _peek past the end of the source
None == "None"

\* str.isspace() on the characters the model uses
IsSpace(c) == c \in {" ", "\t", "\n", "\r"}

\* str.isalnum() on the characters the model uses
IsAlnum(c) ==
    c \in {"a", "b", "c", "d", "e", "f", "g", "h", "i", "j", "k", "l", "m",
           "n", "o", "p", "q", "r", "s", "t", "u", "v", "w", "x", "y", "z",
           "0", "1", "2", "3", "4", "5", "6", "7", "8", "9"}

\* Python's  char * n
Rep(c, n) == [j \in 1..n |-> c]

\* ''.join(chunks)
RECURSIVE Join(_)
Join(chunks) ==
    IF chunks = <<>> THEN <<>> ELSE Head(chunks) \o Join(Tail(chunks))

\* source[a:b] for 0 <= a <= b <= len(source)
Slice(src, a, b) == SubSeq(src, a + 1, b)

-----------------------------------------------------------------------------
(* The object: its fields as one record, so that helper methods are        *)
(* operators from the object before the call to the object after it.      *)

Self ==
    [source |-> source, result |-> result, i |-> i, length |-> length,
     current_state |-> current_state, state_stack |-> state_stack,
     nesting_level |-> nesting_level,
     current_hash_count |-> current_hash_count,
     current_quote_count |-> current_quote_count,
     interpolation_depth |-> interpolation_depth,
     brace_depth |-> brace_depth, bracket_depth |-> bracket_depth,
     line_had_content |-> line_had_content,
     raised |-> raised, origin |-> origin]

\* StateContext(state, hash_count, quote_count)
StateContext(state, hash_count, quote_count) ==
    [state |-> state, hash_count |-> hash_count, quote_count |-> quote_count]

\* self.source[self.i]
current_char(s) == s.source[s.i + 1]

\* _peek(offset)
peek(s, offset) ==
    IF s.i + offset < s.length THEN s.source[s.i + offset + 1] ELSE None

\* the while loop of _count_char, from position pos
RECURSIVE CountFrom(_, _, _, _)
CountFrom(src, len, char, pos) ==
    IF pos < len /\ src[pos + 1] = char
        THEN 1 + CountFrom(src, len, char, pos + 1)
        ELSE 0

\* _count_char(char, start_offset)
count_char(s, char, start_offset) ==
    CountFrom(s.source, s.length, char, s.i + start_offset)

\* the first loop of _is_regex_context: skip whitespace backward from pos
RECURSIVE SkipSpaceBack(_, _)
SkipSpaceBack(src, pos) ==
    IF pos >= 0 /\ IsSpace(src[pos + 1]) THEN SkipSpaceBack(src, pos - 1) ELSE pos

regex_preceding ==
    {"=", "(", ",", "[", ":", "{", "!", "&", "|", "^", "+", "-", "*", "%",
     "<", ">", "~", ";"}

Keywords == {<<"r", "e", "t", "u", "r", "n">>, <<"w", "h", "e", "r", "e">>}

\* the keyword loop without the test of the character before the keyword
KeywordEndsAt_any_prefix(src, pos, keyword) ==
    LET keyword_len == Len(keyword)
        start == pos - keyword_len + 1
    IN  /\ pos >= keyword_len - 1
        /\ Slice(src, start, pos + 1) = keyword

\* the keyword loop of _is_regex_context for one keyword ending at pos
KeywordEndsAt(src, pos, keyword) ==
    LET keyword_len == Len(keyword)
        start == pos - keyword_len + 1
    IN  /\ pos >= keyword_len - 1
        /\ Slice(src, start, pos + 1) = keyword
        /\ (start = 0 \/ ~IsAlnum(src[start]))

\* _is_regex_context as a function of the text and the cursor
RegexContextAt(src, cursor) ==
    LET pos == SkipSpaceBack(src, cursor - 1)
    IN  IF pos < 0 THEN TRUE
        ELSE IF src[pos + 1] \in regex_preceding THEN TRUE
        ELSE \E keyword \in Keywords : KeywordEndsAt(src, pos, keyword)

\* _is_regex_context()
is_regex_context(s) == RegexContextAt(s.source, s.i)

\* _append(text); origin records the cursor at the call
append(s, text) ==
    [s EXCEPT !.result = Append(@, text), !.origin = Append(@, s.i)]

\* _revert_to_previous_state()
revert_to_previous_state(s) ==
    [s EXCEPT !.current_hash_count = 0,
              !.current_quote_count = 0,
              !.current_state = IF s.interpolation_depth > 0
                                    THEN "IN_INTERPOLATION" ELSE "NORMAL"]

\* the while loop of _remove_trailing_spaces on a list of chunks
RECURSIVE PopSpaces(_)
PopSpaces(res) ==
    IF res # <<>> /\ res[Len(res)] \in {<<SPACE>>, <<TAB>>}
        THEN PopSpaces(SubSeq(res, 1, Len(res) - 1))
        ELSE res

\* _remove_trailing_spaces popping newlines as well
RECURSIVE PopBlanksAndNewlines(_)
PopBlanksAndNewlines(res) ==
    IF res # <<>> /\ res[Len(res)] \in {<<SPACE>>, <<TAB>>, <<NEWLINE>>}
        THEN PopBlanksAndNewlines(SubSeq(res, 1, Len(res) - 1))
        ELSE res

remove_trailing_spaces_and_newlines(s) ==
    LET kept == PopBlanksAndNewlines(s.result)
    IN  [s EXCEPT !.result = kept, !.origin = SubSeq(@, 1, Len(kept))]

\* _remove_trailing_spaces with an `if` in place of the `while`
remove_trailing_spaces_once(s) ==
    LET kept == IF s.result # <<>>
                      /\ s.result[Len(s.result)] \in {<<SPACE>>, <<TAB>>}
                    THEN SubSeq(s.result, 1, Len(s.result) - 1)
                    ELSE s.result
    IN  [s EXCEPT !.result = kept, !.origin = SubSeq(@, 1, Len(kept))]

\* _remove_trailing_spaces()
remove_trailing_spaces(s) ==
    LET kept == PopSpaces(s.result)
    IN  [s EXCEPT !.result = kept, !.origin = SubSeq(@, 1, Len(kept))]

\* the while loop of _is_line_only_whitespace_before_comment, from pos
RECURSIVE OnlyWhitespaceBack(_, _)
OnlyWhitespaceBack(src, pos) ==
    IF pos < 0 THEN TRUE
    ELSE IF src[pos + 1] = NEWLINE THEN TRUE
    ELSE IF src[pos + 1] \notin {SPACE, TAB} THEN FALSE
    ELSE OnlyWhitespaceBack(src, pos - 1)

\* the scan of _is_line_only_whitespace_before_comment over the output
\* instead of the source
is_line_only_whitespace_in_output(s) ==
    LET output == Join(s.result)
    IN  OnlyWhitespaceBack(output, Len(output) - 1)

\* _is_line_only_whitespace_before_comment()
is_line_only_whitespace_before_comment(s) ==
    OnlyWhitespaceBack(s.source, s.i - 1)

\* _enter_string_state without  self.i += len(delimiters) - 1
enter_string_state_no_advance(s, state, hash_count, quote_count) ==
    LET qc == IF state = "MULTILINE_STRING" THEN quote_count ELSE 1
        delimiters == Rep(HASH, hash_count) \o Rep(QUOTE, qc)
        s1 == [s EXCEPT !.current_state = state,
                        !.current_hash_count = hash_count,
                        !.current_quote_count = qc]
    IN  append(s1, delimiters)

\* _enter_string_state keeping quote_count for every state
enter_string_state_keeps_quotes(s, state, hash_count, quote_count) ==
    LET delimiters == Rep(HASH, hash_count) \o Rep(QUOTE, quote_count)
        s1 == [s EXCEPT !.current_state = state,
                        !.current_hash_count = hash_count,
                        !.current_quote_count = quote_count]
        s2 == append(s1, delimiters)
    IN  [s2 EXCEPT !.i = @ + Len(delimiters) - 1]

\* _enter_string_state(state, hash_count, quote_count)
enter_string_state(s, state, hash_count, quote_count) ==
    LET qc == IF state = "MULTILINE_STRING" THEN quote_count ELSE 1
        delimiters == Rep(HASH, hash_count) \o Rep(QUOTE, qc)
        s1 == [s EXCEPT !.current_state = state,
                        !.current_hash_count = hash_count,
                        !.current_quote_count = qc]
        s2 == append(s1, delimiters)
    IN  [s2 EXCEPT !.i = @ + Len(delimiters) - 1]

\* _handle_comment_end()
handle_comment_end(s) ==
    [s EXCEPT !.current_state = IF s.interpolation_depth > 0
                                    THEN "IN_INTERPOLATION" ELSE "NORMAL"]

-----------------------------------------------------------------------------
(* The per-state handlers: the object after the handler returns, before    *)
(* the main loop's  self.i += 1.                                           *)

\* _handle_normal_or_interpolation, the `//` branch
open_line_comment(s) ==
    LET s1 == remove_trailing_spaces(s)
    IN  [s1 EXCEPT !.line_had_content = ~is_line_only_whitespace_before_comment(s1),
                   !.current_state = "SINGLE_LINE_COMMENT",
                   !.i = @ + 1]

\* the `/*` branch without  self.nesting_level = 1
open_block_comment_no_level(s) ==
    LET s1 == remove_trailing_spaces(s)
    IN  [s1 EXCEPT !.line_had_content = ~is_line_only_whitespace_before_comment(s1),
                   !.current_state = "MULTI_LINE_COMMENT",
                   !.i = @ + 1]

\* _handle_normal_or_interpolation, the `/*` branch
open_block_comment(s) ==
    LET s1 == remove_trailing_spaces(s)
    IN  [s1 EXCEPT !.line_had_content = ~is_line_only_whitespace_before_comment(s1),
                   !.current_state = "MULTI_LINE_COMMENT",
                   !.nesting_level = 1,
                   !.i = @ + 1]

\* _handle_normal_or_interpolation, the extended-regex opener branch
open_extended_regex(s, hash_count) ==
    LET s1 == [s EXCEPT !.current_state = "EXTENDED_REGEX",
                        !.current_hash_count = hash_count]
        s2 == append(s1, Rep(HASH, hash_count) \o <<SLASH>>)
    IN  [s2 EXCEPT !.i = @ + hash_count]

\* _handle_normal_or_interpolation, the regex opener branch
open_regex(s) ==
    append([s EXCEPT !.current_state = "REGEX_LITERAL"], <<current_char(s)>>)

\* state_stack.pop() and the restore of the saved context; list.pop() on an
\* empty list raises IndexError
pop_context(s) ==
    IF s.state_stack = <<>>
        THEN [s EXCEPT !.raised = "IndexError"]
        ELSE LET context == s.state_stack[Len(s.state_stack)]
             IN  [s EXCEPT !.state_stack = SubSeq(@, 1, Len(@) - 1),
                           !.current_state = context.state,
                           !.current_hash_count = context.hash_count,
                           !.current_quote_count = context.quote_count]

\* the depth bookkeeping with a `)` branch that tests interpolation_depth only
track_interpolation_ignores_braces(s, char) ==
    IF s.current_state # "IN_INTERPOLATION" THEN s
    ELSE IF char = LPAREN THEN [s EXCEPT !.interpolation_depth = @ + 1]
    ELSE IF char = LBRACE THEN [s EXCEPT !.brace_depth = @ + 1]
    ELSE IF char = LBRACKET THEN [s EXCEPT !.bracket_depth = @ + 1]
    ELSE IF char = RPAREN THEN
        LET s1 == [s EXCEPT !.interpolation_depth = @ - 1]
        IN  IF s1.interpolation_depth = 0 THEN pop_context(s1) ELSE s1
    ELSE IF char = RBRACE THEN [s EXCEPT !.brace_depth = @ - 1]
    ELSE IF char = RBRACKET THEN [s EXCEPT !.bracket_depth = @ - 1]
    ELSE s

\* _handle_normal_or_interpolation, the depth bookkeeping after the append
track_interpolation(s, char) ==
    IF s.current_state # "IN_INTERPOLATION" THEN s
    ELSE IF char = LPAREN THEN [s EXCEPT !.interpolation_depth = @ + 1]
    ELSE IF char = LBRACE THEN [s EXCEPT !.brace_depth = @ + 1]
    ELSE IF char = LBRACKET THEN [s EXCEPT !.bracket_depth = @ + 1]
    ELSE IF char = RPAREN THEN
        LET s1 == [s EXCEPT !.interpolation_depth = @ - 1]
        IN  IF s1.interpolation_depth = 0 /\ s1.brace_depth = 0
                   /\ s1.bracket_depth = 0
                THEN pop_context(s1)
                ELSE s1
    ELSE IF char = RBRACE THEN [s EXCEPT !.brace_depth = @ - 1]
    ELSE IF char = RBRACKET THEN [s EXCEPT !.bracket_depth = @ - 1]
    ELSE s

\* _handle_normal_or_interpolation()
handle_normal_or_interpolation(s) ==
    LET char == current_char(s)
        next_char == peek(s, 1)
        hash_count == count_char(s, HASH, 0)
        next_after_hash == peek(s, hash_count)
        quote_after_hash == count_char(s, QUOTE, hash_count)
        quote_count == count_char(s, QUOTE, 0)
    IN  IF char = SLASH /\ next_char = SLASH THEN open_line_comment(s)
        ELSE IF char = SLASH /\ next_char = STAR THEN open_block_comment(s)
        ELSE IF char = HASH /\ next_after_hash = QUOTE THEN
            enter_string_state(s,
                IF quote_after_hash >= 3 THEN "MULTILINE_STRING" ELSE "STRING",
                hash_count, quote_after_hash)
        ELSE IF char = HASH /\ next_after_hash = SLASH /\ is_regex_context(s) THEN
            open_extended_regex(s, hash_count)
        ELSE IF char = QUOTE THEN
            enter_string_state(s,
                IF quote_count >= 3 THEN "MULTILINE_STRING" ELSE "STRING",
                0, quote_count)
        ELSE IF char = SLASH /\ is_regex_context(s) THEN open_regex(s)
        ELSE track_interpolation(append(s, <<char>>), char)

\* _handle_single_comment without the test of line_had_content
handle_single_comment_drops_newline(s) ==
    IF current_char(s) = NEWLINE THEN handle_comment_end(s) ELSE s

\* _handle_single_comment without  if self.line_had_content
handle_single_comment_keeps_newline(s) ==
    IF current_char(s) = NEWLINE
        THEN append(handle_comment_end(s), <<NEWLINE>>)
        ELSE s

\* _handle_single_comment()
handle_single_comment(s) ==
    IF current_char(s) = NEWLINE
        THEN LET s1 == handle_comment_end(s)
             IN  IF s1.line_had_content THEN append(s1, <<NEWLINE>>) ELSE s1
        ELSE s

\* _handle_multi_comment leaving nesting_level as it is at the closing `*/`
handle_multi_comment_keeps_level(s) ==
    LET char == current_char(s)
        next_char == peek(s, 1)
    IN  IF char = SLASH /\ next_char = STAR
            THEN [s EXCEPT !.nesting_level = @ + 1, !.i = @ + 1]
        ELSE IF char = STAR /\ next_char = SLASH
            THEN IF s.nesting_level = 1
                     THEN handle_comment_end([s EXCEPT !.i = @ + 1])
                     ELSE [s EXCEPT !.nesting_level = @ - 1, !.i = @ + 1]
        ELSE s

\* _handle_multi_comment ending the comment at the first `*/`
handle_multi_comment_flat(s) ==
    LET char == current_char(s)
        next_char == peek(s, 1)
    IN  IF char = SLASH /\ next_char = STAR
            THEN [s EXCEPT !.nesting_level = @ + 1, !.i = @ + 1]
        ELSE IF char = STAR /\ next_char = SLASH
            THEN handle_comment_end([s EXCEPT !.nesting_level = 0, !.i = @ + 1])
        ELSE s

\* _handle_multi_comment without  and not self.line_had_content
handle_multi_comment_skips_newline(s) ==
    LET char == current_char(s)
        next_char == peek(s, 1)
    IN  IF char = SLASH /\ next_char = STAR
            THEN [s EXCEPT !.nesting_level = @ + 1, !.i = @ + 1]
        ELSE IF char = STAR /\ next_char = SLASH
            THEN LET s1 == [s EXCEPT !.nesting_level = @ - 1, !.i = @ + 1]
                 IN  IF s1.nesting_level = 0
                        THEN LET s2 == handle_comment_end(s1)
                             IN  IF peek(s2, 1) = NEWLINE
                                    THEN [s2 EXCEPT !.i = @ + 1]
                                    ELSE s2
                        ELSE s1
        ELSE s

\* _handle_multi_comment()
handle_multi_comment(s) ==
    LET char == current_char(s)
        next_char == peek(s, 1)
    IN  IF char = SLASH /\ next_char = STAR
            THEN [s EXCEPT !.nesting_level = @ + 1, !.i = @ + 1]
        ELSE IF char = STAR /\ next_char = SLASH
            THEN LET s1 == [s EXCEPT !.nesting_level = @ - 1, !.i = @ + 1]
                 IN  IF s1.nesting_level = 0
                        THEN LET s2 == handle_comment_end(s1)
                             IN  IF peek(s2, 1) = NEWLINE /\ ~s2.line_had_content
                                    THEN [s2 EXCEPT !.i = @ + 1]
                                    ELSE s2
                        ELSE s1
        ELSE s

\* the `\(` branch without  self.state_stack.append(context)
open_interpolation_no_push(s) ==
    LET s1 == append(s, <<BACKSLASH, LPAREN>>)
    IN  [s1 EXCEPT !.i = @ + 1,
                   !.current_state = "IN_INTERPOLATION",
                   !.interpolation_depth = 1,
                   !.brace_depth = 0,
                   !.bracket_depth = 0]

\* _handle_any_string, the `\(` branch
open_interpolation(s) ==
    LET s1 == append(s, <<BACKSLASH, LPAREN>>)
        context == StateContext(s.current_state, s.current_hash_count,
                                s.current_quote_count)
    IN  [s1 EXCEPT !.i = @ + 1,
                   !.state_stack = Append(@, context),
                   !.current_state = "IN_INTERPOLATION",
                   !.interpolation_depth = 1,
                   !.brace_depth = 0,
                   !.bracket_depth = 0]

\* the is_closing_quote computation without the count of the hashes
is_closing_quote_any_hashes(s) ==
    /\ current_char(s) = QUOTE
    /\ count_char(s, QUOTE, 0) >= s.current_quote_count

\* _handle_any_string, the is_closing_quote computation
is_closing_quote(s) ==
    LET end_quote_count == count_char(s, QUOTE, 0)
    IN  /\ current_char(s) = QUOTE
        /\ end_quote_count >= s.current_quote_count
        /\ (s.current_hash_count > 0 =>
                count_char(s, HASH, end_quote_count) >= s.current_hash_count)

\* _handle_any_string, the closing branch
close_string(s) ==
    LET delimiters == Rep(QUOTE, s.current_quote_count)
                          \o Rep(HASH, s.current_hash_count)
        s1 == append(s, delimiters)
    IN  revert_to_previous_state([s1 EXCEPT !.i = @ + Len(delimiters) - 1])

\* _handle_any_string(escape_state)
handle_any_string(s, escape_state) ==
    LET char == current_char(s)
        next_char == peek(s, 1)
    IN  IF char = BACKSLASH THEN
            IF next_char = LPAREN
                THEN open_interpolation(s)
                ELSE append([s EXCEPT !.current_state = escape_state], <<char>>)
        ELSE IF is_closing_quote(s) THEN close_string(s)
        ELSE append(s, <<char>>)

\* _handle_string()
handle_string(s) == handle_any_string(s, "STRING_ESCAPE")

\* _handle_multiline_string()
handle_multiline_string(s) == handle_any_string(s, "MULTILINE_STRING_ESCAPE")

\* _handle_string_escape()
handle_string_escape(s) ==
    [append(s, <<current_char(s)>>) EXCEPT !.current_state = "STRING"]

\* _handle_multiline_string_escape returning to STRING
handle_multiline_string_escape_to_string(s) ==
    [append(s, <<current_char(s)>>) EXCEPT !.current_state = "STRING"]

\* _handle_multiline_string_escape()
handle_multiline_string_escape(s) ==
    [append(s, <<current_char(s)>>) EXCEPT !.current_state = "MULTILINE_STRING"]

\* _handle_regex()
handle_regex(s) ==
    LET char == current_char(s)
        next_char == peek(s, 1)
    IN  IF char = BACKSLASH /\ next_char # None
            THEN [append(s, <<char, next_char>>) EXCEPT !.i = @ + 1]
        ELSE IF char = SLASH
            THEN revert_to_previous_state(append(s, <<char>>))
        ELSE append(s, <<char>>)

\* _handle_extended_regex, the closing branch
close_extended_regex(s) ==
    LET delimiters == <<SLASH>> \o Rep(HASH, s.current_hash_count)
        s1 == append(s, delimiters)
    IN  revert_to_previous_state([s1 EXCEPT !.i = @ + s.current_hash_count])

\* _handle_extended_regex, the loop counting the spaces at the end of
\* self.result: the index result_len_before - 1 - spaces_before is read with
\* Python's list indexing (a negative index counts from the end, an index
\* below -len raises IndexError, returned here as -1)
RECURSIVE CountSpacesBefore(_, _)
CountSpacesBefore(res, spaces_before) ==
    LET result_len_before == Len(res)
        idx == result_len_before - 1 - spaces_before
    IN  IF result_len_before > 0
            THEN IF idx < 0 - result_len_before THEN -1
                 ELSE IF res[(idx % result_len_before) + 1] = <<SPACE>>
                     THEN CountSpacesBefore(res, spaces_before + 1)
                     ELSE spaces_before
            ELSE spaces_before

\* _handle_extended_regex, the loop skipping the comment up to the newline
RECURSIVE SkipToNewline(_, _, _)
SkipToNewline(src, len, pos) ==
    IF pos < len /\ src[pos + 1] # NEWLINE
        THEN SkipToNewline(src, len, pos + 1)
        ELSE pos

\* the `#` comment branch without the loop that skips to the newline
strip_regex_comment_no_skip(s) ==
    LET result_len_before == Len(s.result)
        spaces_before == CountSpacesBefore(s.result, 0)
        kept == result_len_before - spaces_before
    IN  IF spaces_before < 0
            THEN [s EXCEPT !.raised = "IndexError"]
            ELSE [s EXCEPT !.result = SubSeq(@, 1, kept),
                           !.origin = SubSeq(@, 1, kept),
                           !.i = s.i - 1]

\* _handle_extended_regex, the `#` comment branch
strip_regex_comment(s) ==
    LET result_len_before == Len(s.result)
        spaces_before == CountSpacesBefore(s.result, 0)
        kept == result_len_before - spaces_before
    IN  IF spaces_before < 0
            THEN [s EXCEPT !.raised = "IndexError"]
            ELSE [s EXCEPT !.result = SubSeq(@, 1, kept),
                           !.origin = SubSeq(@, 1, kept),
                           !.i = SkipToNewline(s.source, s.length, s.i) - 1]

\* _handle_extended_regex without its escape branch
handle_extended_regex_no_escape(s) ==
    LET char == current_char(s)
    IN  IF char = SLASH /\ count_char(s, HASH, 1) >= s.current_hash_count
            THEN close_extended_regex(s)
        ELSE IF char = HASH THEN strip_regex_comment(s)
        ELSE append(s, <<char>>)

\* _handle_extended_regex()
handle_extended_regex(s) ==
    LET char == current_char(s)
    IN  IF char = SLASH /\ count_char(s, HASH, 1) >= s.current_hash_count
            THEN close_extended_regex(s)
        ELSE IF char = HASH THEN strip_regex_comment(s)
        ELSE IF char = BACKSLASH /\ peek(s, 1) # None
            THEN [append(s, <<char, peek(s, 1)>>) EXCEPT !.i = @ + 1]
        ELSE append(s, <<char>>)

-----------------------------------------------------------------------------
(* Inputs: every text of at most MaxTokens tokens over one of the token    *)
(* alphabets below; a token is a character or a short run of characters.   *)

MaxTokens == 6

\* the text of a sequence of tokens
RECURSIVE Concat(_)
Concat(word) == IF word = <<>> THEN <<>> ELSE Head(word) \o Concat(Tail(word))

\* code, division, spaces and block comments on one line
CommentTokens ==
    {<<"a">>, <<SLASH>>, <<SPACE>>, <<SLASH, STAR>>, <<STAR, SLASH>>}

\* lines of code and comments
LineTokens ==
    {<<"a">>, <<NEWLINE>>, <<SLASH, SLASH>>, <<SLASH, STAR>>, <<STAR, SLASH>>}

\* lines of whitespace and comments
BlankLineTokens ==
    {<<TAB>>, <<NEWLINE>>, <<SLASH, SLASH>>, <<SLASH, STAR>>, <<STAR, SLASH>>}

\* plain, raw and multi-line strings with escapes and comment openers inside
StringTokens ==
    {<<HASH>>, <<QUOTE>>, <<QUOTE, QUOTE, QUOTE>>, <<BACKSLASH>>, <<SLASH, SLASH>>}

\* strings with nested interpolations
InterpolationTokens ==
    {<<QUOTE>>, <<BACKSLASH, LPAREN>>, <<RPAREN>>, <<LBRACE>>, <<RBRACE>>}

\* extended regex literals with comments
ExtendedRegexTokens ==
    {<<HASH, SLASH>>, <<SLASH, HASH>>, <<SPACE>>, <<HASH>>, <<NEWLINE>>}

\* the keywords of the regex oracle, an operator, a space and `/`
OracleTokens ==
    {<<"r", "e", "t", "u", "r", "n">>, <<"w", "h", "e", "r", "e">>, <<"=">>,
     <<SPACE>>, <<SLASH>>}

\* an interpolation with a brace, a parenthesis and a block comment
InterpolationCommentTokens ==
    {<<QUOTE, BACKSLASH, LPAREN>>, <<LBRACE>>, <<RPAREN>>, <<SLASH, STAR>>,
     <<STAR, SLASH>>}

\* an extended regex with escapes, spaces, comments and lines
RegexEscapeTokens ==
    {<<HASH, SLASH>>, <<BACKSLASH>>, <<SPACE>>, <<HASH>>, <<NEWLINE>>}

Alphabets ==
    {CommentTokens, LineTokens, BlankLineTokens, StringTokens,
     InterpolationTokens, ExtendedRegexTokens, OracleTokens,
     RegexEscapeTokens, InterpolationCommentTokens}

-----------------------------------------------------------------------------
(* The state machine *)

Init ==
    /\ source = <<>>
    /\ result = <<>>
    /\ i = 0
    /\ length = 0
    /\ current_state = "NORMAL"
    /\ state_stack = <<>>
    /\ nesting_level = 0
    /\ current_hash_count = 0
    /\ current_quote_count = 0
    /\ interpolation_depth = 0
    /\ brace_depth = 0
    /\ bracket_depth = 0
    /\ line_had_content = FALSE
    /\ pc = "idle"
    /\ raised = "none"
    /\ origin = <<>>
    /\ calls = 0
    /\ prev = [source |-> <<>>, output |-> <<>>, origin |-> <<>>]
    /\ openers = NoOpeners
    /\ literals = <<>>
    /\ comment_at = {}
    /\ cut_newlines = NoNewlines
    /\ comment_opened_in = None
    /\ regex_opened_in = None
    /\ driver = None
    /\ swift_files = <<>>
    /\ file_no = 0
    /\ stats = NewStats(0)
    /\ failed_files = <<>>
    /\ driver_pc = "idle"
    /\ attempted = <<>>

\* the source index of every character of the output, chunk by chunk
RECURSIVE CharOrigins(_, _)
CharOrigins(chunks, starts) ==
    IF chunks = <<>> THEN <<>>
    ELSE [j \in 1..Len(Head(chunks)) |-> Head(starts) + j - 1]
             \o CharOrigins(Tail(chunks), Tail(starts))

\* history of the comment openers: a handler that leaves NORMAL or
\* IN_INTERPOLATION for a comment state recognized `//` or `/*`; the only
\* branch of _handle_extended_regex that appends nothing is its `#` branch
CountOpeners(before, after) ==
    IF before.current_state \in CodeStates
           /\ after.current_state = "SINGLE_LINE_COMMENT"
        THEN [openers EXCEPT !.line = @ + 1]
    ELSE IF before.current_state \in CodeStates
           /\ after.current_state = "MULTI_LINE_COMMENT"
        THEN [openers EXCEPT !.block = @ + 1]
    ELSE IF before.current_state = "EXTENDED_REGEX" /\ after.raised = "none"
           /\ Len(after.result) <= Len(before.result)
        THEN [openers EXCEPT !.regex = @ + 1]
    ELSE openers

\* history of the open string literals: _enter_string_state opens one (where
\* it starts in the source and in the output, and the lexer's mode, depths and
\* stack at that moment), the `\(` branch of _handle_any_string marks the
\* innermost as interpolated, the closing branch closes the innermost
TrackLiterals(before, after) ==
    IF before.current_state \in CodeStates /\ after.current_state \in StringStates
           /\ Len(after.state_stack) = Len(before.state_stack)
        THEN Append(literals,
                 [start |-> before.i,
                  chunk |-> Len(before.result) + 1,
                  opened_in |-> before.current_state,
                  depths |-> <<before.interpolation_depth, before.brace_depth,
                               before.bracket_depth>>,
                  stack |-> before.state_stack,
                  mode |-> after.current_state,
                  hash_count |-> after.current_hash_count,
                  quote_count |-> after.current_quote_count,
                  interpolated |-> FALSE,
                  exits |-> 0])
    ELSE IF before.current_state \in StringStates
           /\ Len(after.state_stack) > Len(before.state_stack)
           /\ literals # <<>>
        THEN [literals EXCEPT
                 ![Len(literals)].interpolated = TRUE,
                 ![Len(literals)].mode = before.current_state,
                 ![Len(literals)].hash_count = before.current_hash_count,
                 ![Len(literals)].quote_count = before.current_quote_count]
    ELSE IF before.current_state = "IN_INTERPOLATION"
           /\ after.current_state \in StringStates
           /\ Len(after.state_stack) < Len(before.state_stack)
           /\ literals # <<>>
        THEN [literals EXCEPT ![Len(literals)].exits = @ + 1]
    ELSE IF before.current_state \in StringStates
           /\ after.current_state \in CodeStates
           /\ Len(after.state_stack) = Len(before.state_stack)
           /\ literals # <<>>
        THEN SubSeq(literals, 1, Len(literals) - 1)
    ELSE literals

\* history of the comment text: the source indices a handler consumes as
\* part of a comment (its opener, its body, its closing `*/`, a newline inside
\* a block comment), not the newline that ends a line comment or follows `*/`
CommentBytes(before, after) ==
    IF before.current_state = "SINGLE_LINE_COMMENT"
        THEN IF current_char(before) = NEWLINE THEN {} ELSE {before.i}
    ELSE IF before.current_state = "MULTI_LINE_COMMENT"
        THEN IF after.current_state \in CodeStates
                 THEN {before.i, before.i + 1}
                 ELSE before.i..after.i
    ELSE IF before.current_state \in CodeStates
           /\ after.current_state \in CommentStates
        THEN {before.i, before.i + 1}
    ELSE IF before.current_state = "EXTENDED_REGEX" /\ after.raised = "none"
           /\ Len(after.result) <= Len(before.result)
        THEN before.i..after.i
    ELSE {}

\* history of the newlines consumed with a comment: one inside a block
\* comment; one that ends a line comment, or directly follows the `*/` that
\* ends a block comment, when line_had_content is false
CountCutNewlines(before, after) ==
    IF before.current_state = "MULTI_LINE_COMMENT"
           /\ current_char(before) = NEWLINE
        THEN [cut_newlines EXCEPT !.inside = @ + 1]
    ELSE IF before.current_state = "SINGLE_LINE_COMMENT"
           /\ current_char(before) = NEWLINE /\ ~before.line_had_content
        THEN [cut_newlines EXCEPT !.after = @ + 1]
    ELSE IF before.current_state = "MULTI_LINE_COMMENT"
           /\ after.current_state \in CodeStates
           /\ peek(before, 2) = NEWLINE /\ ~before.line_had_content
        THEN [cut_newlines EXCEPT !.after = @ + 1]
    ELSE cut_newlines

\* history of the open comment: the state the lexer was in when the comment
\* it is inside began
CommentMode(before, after) ==
    IF before.current_state \in CodeStates
           /\ after.current_state \in CommentStates
        THEN before.current_state
    ELSE IF after.current_state \in CommentStates THEN comment_opened_in
    ELSE None

\* history of the open regex literal: the state the lexer was in when the
\* `/` that opened it was met
RegexMode(before, after) ==
    IF before.current_state \in CodeStates
           /\ after.current_state = "REGEX_LITERAL"
        THEN before.current_state
    ELSE IF after.current_state = "REGEX_LITERAL" THEN regex_opened_in
    ELSE None

\* the object's fields after a handler, and the loop's  self.i += 1  unless
\* the handler raised
Store(s) ==
    /\ source' = s.source
    /\ result' = s.result
    /\ i' = IF s.raised = "none" THEN s.i + 1 ELSE s.i
    /\ length' = s.length
    /\ current_state' = s.current_state
    /\ state_stack' = s.state_stack
    /\ nesting_level' = s.nesting_level
    /\ current_hash_count' = s.current_hash_count
    /\ current_quote_count' = s.current_quote_count
    /\ interpolation_depth' = s.interpolation_depth
    /\ brace_depth' = s.brace_depth
    /\ bracket_depth' = s.bracket_depth
    /\ line_had_content' = s.line_had_content
    /\ raised' = s.raised
    /\ origin' = s.origin
    /\ pc' = IF s.raised = "none" THEN "loop" ELSE "raised"
    /\ openers' = CountOpeners(Self, s)
    /\ literals' = TrackLiterals(Self, s)
    /\ comment_at' = comment_at \cup CommentBytes(Self, s)
    /\ cut_newlines' = CountCutNewlines(Self, s)
    /\ comment_opened_in' = CommentMode(Self, s)
    /\ regex_opened_in' = RegexMode(Self, s)
    /\ UNCHANGED <<calls, prev>>
    /\ UNCHANGED driver_vars

\* the object __init__ constructs
NewInstance ==
    [source |-> <<>>, result |-> <<>>, i |-> 0, length |-> 0,
     current_state |-> "NORMAL", state_stack |-> <<>>,
     nesting_level |-> 0, current_hash_count |-> 0,
     current_quote_count |-> 0, interpolation_depth |-> 0,
     brace_depth |-> 0, bracket_depth |-> 0, line_had_content |-> FALSE,
     raised |-> "none", origin |-> <<>>]

\* the assignments of remove_comments before its main loop, without the one
\* to self.current_state
reset_keeps_current_state(s, text) ==
    [s EXCEPT !.source = text, !.result = <<>>, !.i = 0,
              !.length = Len(text), !.state_stack = <<>>,
              !.nesting_level = 0,
              !.current_hash_count = 0, !.current_quote_count = 0,
              !.interpolation_depth = 0, !.brace_depth = 0,
              !.bracket_depth = 0, !.line_had_content = FALSE,
              !.raised = "none", !.origin = <<>>]

\* the assignments of remove_comments before its main loop, on the object s
\* as earlier calls left it
reset(s, text) ==
    [s EXCEPT !.source = text, !.result = <<>>, !.i = 0,
              !.length = Len(text), !.state_stack = <<>>,
              !.current_state = "NORMAL", !.nesting_level = 0,
              !.current_hash_count = 0, !.current_quote_count = 0,
              !.interpolation_depth = 0, !.brace_depth = 0,
              !.bracket_depth = 0, !.line_had_content = FALSE,
              !.raised = "none", !.origin = <<>>]

\* remove_comments(text): the assignments before the main loop
Enter(text) ==
    LET s == reset(Self, text) IN
    /\ source' = s.source
    /\ result' = s.result
    /\ i' = s.i
    /\ length' = s.length
    /\ state_stack' = s.state_stack
    /\ current_state' = s.current_state
    /\ nesting_level' = s.nesting_level
    /\ current_hash_count' = s.current_hash_count
    /\ current_quote_count' = s.current_quote_count
    /\ interpolation_depth' = s.interpolation_depth
    /\ brace_depth' = s.brace_depth
    /\ bracket_depth' = s.bracket_depth
    /\ line_had_content' = s.line_had_content
    /\ pc' = "loop"
    /\ raised' = s.raised
    /\ origin' = s.origin
    /\ calls' = calls + 1
    /\ prev' = [source |-> source, output |-> Join(result),
                origin |-> CharOrigins(result, origin)]
    /\ openers' = NoOpeners
    /\ literals' = <<>>
    /\ comment_at' = {}
    /\ cut_newlines' = NoNewlines
    /\ comment_opened_in' = None
    /\ regex_opened_in' = None
    /\ UNCHANGED driver_vars

\* a caller passes a text to remove_comments on the new instance
remove_comments ==
    /\ pc = "idle"
    /\ \E tokens \in Alphabets, n \in 0..MaxTokens :
           \E word \in [1..n -> tokens] : Enter(Concat(word))

\* the output of the first call is passed to remove_comments on the same
\* instance
remove_comments_again ==
    /\ pc = "done"
    /\ calls = 1
    /\ Enter(Join(result))

\* one iteration of the main loop in a given state
Iteration(state) == pc = "loop" /\ i < length /\ current_state = state

handle_normal ==
    Iteration("NORMAL") /\ Store(handle_normal_or_interpolation(Self))

handle_in_interpolation ==
    Iteration("IN_INTERPOLATION") /\ Store(handle_normal_or_interpolation(Self))

SingleLineCommentStep ==
    Iteration("SINGLE_LINE_COMMENT") /\ Store(handle_single_comment(Self))

MultiLineCommentStep ==
    Iteration("MULTI_LINE_COMMENT") /\ Store(handle_multi_comment(Self))

StringStep ==
    Iteration("STRING") /\ Store(handle_string(Self))

StringEscapeStep ==
    Iteration("STRING_ESCAPE") /\ Store(handle_string_escape(Self))

MultilineStringStep ==
    Iteration("MULTILINE_STRING") /\ Store(handle_multiline_string(Self))

MultilineStringEscapeStep ==
    Iteration("MULTILINE_STRING_ESCAPE")
        /\ Store(handle_multiline_string_escape(Self))

RegexStep ==
    Iteration("REGEX_LITERAL") /\ Store(handle_regex(Self))

ExtendedRegexStep ==
    Iteration("EXTENDED_REGEX") /\ Store(handle_extended_regex(Self))

\* the main loop ends and remove_comments returns ''.join(self.result)
Return ==
    /\ pc = "loop"
    /\ i >= length
    /\ pc' = "done"
    /\ UNCHANGED <<source, result, i, length, current_state, state_stack,
                   nesting_level, current_hash_count, current_quote_count,
                   interpolation_depth, brace_depth, bracket_depth,
                   line_had_content, raised, origin, calls, prev, openers,
                   literals, comment_at, cut_newlines, comment_opened_in,
                   regex_opened_in>>
    /\ UNCHANGED driver_vars

\* _process_current_char(): the dispatch on self.current_state
process_current_char ==
    \/ handle_normal
    \/ handle_in_interpolation
    \/ SingleLineCommentStep
    \/ MultiLineCommentStep
    \/ StringStep
    \/ StringEscapeStep
    \/ MultilineStringStep
    \/ MultilineStringEscapeStep
    \/ RegexStep
    \/ ExtendedRegexStep

\* one call of remove_comments on a new instance
Next ==
    \/ remove_comments
    \/ process_current_char
    \/ Return

Spec == Init /\ [][Next]_vars

\* remove_comments applied to its own output
NextTwice ==
    \/ Next
    \/ remove_comments_again

SpecTwice == Init /\ [][NextTwice]_vars

\* the handler _process_current_char dispatches to, as a function of the
\* object
Dispatch(s) ==
    CASE s.current_state \in CodeStates -> handle_normal_or_interpolation(s)
      [] s.current_state = "SINGLE_LINE_COMMENT" -> handle_single_comment(s)
      [] s.current_state = "MULTI_LINE_COMMENT" -> handle_multi_comment(s)
      [] s.current_state = "STRING" -> handle_string(s)
      [] s.current_state = "STRING_ESCAPE" -> handle_string_escape(s)
      [] s.current_state = "MULTILINE_STRING" -> handle_multiline_string(s)
      [] s.current_state = "MULTILINE_STRING_ESCAPE" ->
             handle_multiline_string_escape(s)
      [] s.current_state = "REGEX_LITERAL" -> handle_regex(s)
      [] s.current_state = "EXTENDED_REGEX" -> handle_extended_regex(s)

\* the main loop of remove_comments run to its end on the object s
RECURSIVE MainLoop(_)
MainLoop(s) ==
    IF s.raised # "none" \/ s.i >= s.length THEN s
    ELSE LET after == Dispatch(s) IN
         IF after.raised # "none" THEN after
         ELSE MainLoop([after EXCEPT !.i = @ + 1])

\* what remove_comments(text) leaves in a new instance
OnNewInstance(text) == MainLoop(reset(NewInstance, text))

\* the lengths of the texts of an earlier call and of a call on the reused
\* instance
MaxDirtyTokens == 2
MaxReuseTokens == 3

\* openers that leave a text unfinished: inside a string, a raw string, an
\* interpolation, a block comment, a line comment or an extended regex
DirtyTokens ==
    {<<QUOTE>>, <<BACKSLASH, LPAREN>>, <<SLASH, STAR>>, <<HASH>>,
     <<SLASH, SLASH>>}

\* a first call on the new instance, whose input may end anywhere
remove_comments_first ==
    /\ pc = "idle"
    /\ \E n \in 0..MaxDirtyTokens :
           \E word \in [1..n -> DirtyTokens] : Enter(Concat(word))

\* the same instance is called again with another text, as test_project
\* does for every file of a project
remove_comments_reused ==
    /\ pc = "done"
    /\ calls = 1
    /\ \E tokens \in Alphabets, n \in 0..MaxReuseTokens :
           \E word \in [1..n -> tokens] : Enter(Concat(word))

\* two calls of remove_comments on one instance
NextReuse ==
    \/ remove_comments_first
    \/ process_current_char
    \/ Return
    \/ remove_comments_reused

SpecReuse == Init /\ [][NextReuse]_vars

-----------------------------------------------------------------------------
(* Example inputs: the scenarios S5 to S8 and texts that take the lexer     *)
(* through its other states                                                *)

\* let m = "v=\(n /* k */ + 1)"
S5Text ==
    <<"l", "e", "t", " ", "m", " ", "=", " ", "\"", "v", "=", "\\", "(", "n",
      " ", "/", "*", " ", "k", " ", "*", "/", " ", "+", " ", "1", ")", "\"">>

\* let e = #/ , \d+ with a comment, /# on three lines
S6Text ==
    <<"l", "e", "t", " ", "e", " ", "=", " ", "#", "/", "\n", " ", " ", "\\",
      "d", "+", " ", " ", "#", " ", "d", "i", "g", "i", "t", "s", "\n", "/",
      "#">>

\* /* /* inner */ outer */ code
S7Text ==
    <<"/", "*", " ", "/", "*", " ", "i", "n", "n", "e", "r", " ", "*", "/",
      " ", "o", "u", "t", "e", "r", " ", "*", "/", " ", "c", "o", "d", "e">>

\* let v = d["k"] / 2 // div
S8Text ==
    <<"l", "e", "t", " ", "v", " ", "=", " ", "d", "[", "\"", "k", "\"", "]",
      " ", "/", " ", "2", " ", "/", "/", " ", "d", "i", "v">>

\* foo / bar // c
DivisionAfterIdentifier ==
    <<"f", "o", "o", " ", "/", " ", "b", "a", "r", " ", "/", "/", " ", "c">>

\* a[k] / 2 // c
DivisionAfterSubscript ==
    <<"a", "[", "k", "]", " ", "/", " ", "2", " ", "/", "/", " ", "c">>

\* x++ / y // c
DivisionAfterPostfix ==
    <<"x", "+", "+", " ", "/", " ", "y", " ", "/", "/", " ", "c">>

\* let s = "a\"b" // c
EscapedQuoteText ==
    <<"l", "e", "t", " ", "s", " ", "=", " ", "\"", "a", "\\", "\"", "b",
      "\"", " ", "/", "/", " ", "c">>

\* a multi-line string with an escaped quote, then a block comment
MultilineStringText ==
    <<"l", "e", "t", " ", "t", " ", "=", " ", "\"", "\"", "\"", "\n", "\\",
      "\"", "x", "\n", "\"", "\"", "\"", " ", "/", "*", " ", "c", " ", "*",
      "/">>

\* #"a""b"#
RawStringText == <<"#", "\"", "a", "\"", "\"", "b", "\"", "#">>

Examples ==
    {S5Text, S6Text, S7Text, S8Text,
     DivisionAfterIdentifier, DivisionAfterSubscript, DivisionAfterPostfix,
     EscapedQuoteText, MultilineStringText, RawStringText}

\* a caller passes one of the example texts to remove_comments on the new
\* instance
remove_comments_example ==
    /\ pc = "idle"
    /\ \E text \in Examples : Enter(text)

\* one call of remove_comments on an example text
NextExamples ==
    \/ remove_comments_example
    \/ process_current_char
    \/ Return

SpecExamples == Init /\ [][NextExamples]_vars

-----------------------------------------------------------------------------
(* Interpolations with parentheses, braces, brackets and nested strings     *)

\* the length of the texts over the nesting alphabets
MaxNestingTokens == 6

\* an interpolation with parentheses and braces
ParenBraceTokens ==
    {<<QUOTE, BACKSLASH, LPAREN>>, <<LPAREN>>, <<RPAREN>>, <<LBRACE>>,
     <<RBRACE>>}

\* an interpolation with brackets and strings nested in it
BracketStringTokens ==
    {<<QUOTE>>, <<BACKSLASH, LPAREN>>, <<RPAREN>>, <<LBRACKET>>, <<RBRACKET>>}

\* raw and multi-line strings with interpolations
RawInterpolationTokens ==
    {<<HASH, QUOTE>>, <<QUOTE, QUOTE, QUOTE>>, <<QUOTE>>,
     <<BACKSLASH, LPAREN>>, <<RPAREN>>}

NestingAlphabets ==
    {ParenBraceTokens, BracketStringTokens, RawInterpolationTokens}

\* a caller passes a text over a nesting alphabet to remove_comments on the
\* new instance
remove_comments_nesting ==
    /\ pc = "idle"
    /\ \E tokens \in NestingAlphabets, n \in 0..MaxNestingTokens :
           \E word \in [1..n -> tokens] : Enter(Concat(word))

\* one call of remove_comments on a text with interpolations or on an
\* example text
NextNesting ==
    \/ remove_comments_nesting
    \/ remove_comments_example
    \/ process_current_char
    \/ Return

SpecNesting == Init /\ [][NextNesting]_vars

-----------------------------------------------------------------------------
(* Comments among spaces, tabs, carriage returns and newlines               *)

\* the length of the texts over the layout alphabets
MaxLayoutTokens == 6

\* comments among spaces, tabs and newlines
MixedBlankTokens ==
    {<<SPACE>>, <<TAB>>, <<NEWLINE>>, <<SLASH, SLASH>>,
     <<SLASH, STAR, STAR, SLASH>>}

\* comments on lines with carriage returns
CarriageReturnTokens ==
    {<<"a">>, <<CR>>, <<NEWLINE>>, <<SLASH, SLASH>>,
     <<SLASH, STAR, STAR, SLASH>>}

\* comments and spaces in an interpolation
InterpolationLayoutTokens ==
    {<<QUOTE, BACKSLASH, LPAREN>>, <<SPACE>>, <<NEWLINE>>, <<SLASH, SLASH>>,
     <<SLASH, STAR, STAR, SLASH>>}

LayoutAlphabets ==
    {CommentTokens, LineTokens, BlankLineTokens, MixedBlankTokens,
     CarriageReturnTokens, InterpolationLayoutTokens}

\* a caller passes a text over a layout alphabet to remove_comments on the
\* new instance
remove_comments_layout ==
    /\ pc = "idle"
    /\ \E tokens \in LayoutAlphabets, n \in 0..MaxLayoutTokens :
           \E word \in [1..n -> tokens] : Enter(Concat(word))

\* one call of remove_comments on a text with comments and white space or
\* on an example text
NextLayout ==
    \/ remove_comments_layout
    \/ remove_comments_example
    \/ process_current_char
    \/ Return

SpecLayout == Init /\ [][NextLayout]_vars

-----------------------------------------------------------------------------
(* Runs of hashes and quotes, escapes, and strings in interpolations        *)

\* the length of the texts over the string alphabets
MaxStringTokens == 6

\* runs of hashes before a quote or a `/`, after an operator or a name
HashRunTokens ==
    {<<HASH>>, <<QUOTE>>, <<SLASH>>, <<"a">>, <<"=">>}

\* backslashes before quotes, backslashes, parentheses and hashes
EscapeTokens ==
    {<<QUOTE>>, <<QUOTE, QUOTE, QUOTE>>, <<BACKSLASH>>, <<LPAREN>>, <<HASH>>}

\* raw strings opened in an interpolation
InterpolatedRawTokens ==
    {<<QUOTE, BACKSLASH, LPAREN>>, <<HASH>>, <<QUOTE>>, <<RPAREN>>,
     <<BACKSLASH>>}

StringAlphabets ==
    {StringTokens, HashRunTokens, EscapeTokens, InterpolatedRawTokens}

\* a caller passes a text over a string alphabet to remove_comments on the
\* new instance
remove_comments_strings ==
    /\ pc = "idle"
    /\ \E tokens \in StringAlphabets, n \in 0..MaxStringTokens :
           \E word \in [1..n -> tokens] : Enter(Concat(word))

\* one call of remove_comments on a text with string literals or on an
\* example text
NextStrings ==
    \/ remove_comments_strings
    \/ remove_comments_example
    \/ process_current_char
    \/ Return

SpecStrings == Init /\ [][NextStrings]_vars

-----------------------------------------------------------------------------
(* Regex literals, in interpolations and next to comments                   *)

\* the length of the texts over the regex alphabets
MaxRegexTokens == 6

\* regex literals with escapes, newlines and the characters of comment
\* openers
RegexTokens ==
    {<<"=">>, <<SLASH>>, <<BACKSLASH>>, <<NEWLINE>>, <<STAR>>}

\* regex literals in an interpolation, with and without an open brace
\* before the `)`
RegexInterpolationTokens ==
    {<<QUOTE, BACKSLASH, LPAREN>>, <<LBRACE, RPAREN>>, <<"=">>, <<SLASH>>,
     <<"a">>}

RegexAlphabets ==
    {RegexTokens, RegexInterpolationTokens, ExtendedRegexTokens,
     RegexEscapeTokens, CommentTokens, BlankLineTokens}

\* a caller passes a text over a regex alphabet to remove_comments on the
\* new instance
remove_comments_regex ==
    /\ pc = "idle"
    /\ \E tokens \in RegexAlphabets, n \in 0..MaxRegexTokens :
           \E word \in [1..n -> tokens] : Enter(Concat(word))

\* one call of remove_comments on a text with regex literals or on an
\* example text
NextRegex ==
    \/ remove_comments_regex
    \/ remove_comments_example
    \/ process_current_char
    \/ Return

SpecRegex == Init /\ [][NextRegex]_vars

-----------------------------------------------------------------------------
(* Vocabulary of the properties *)

\* the text returned so far: ''.join(self.result)
Output == Join(result)

\* the main loop is about to run a handler on source[i]
AtChar == pc = "loop" /\ i < length

\* the innermost open string literal
InnermostLiteral == literals[Len(literals)]

\* the handler about to run is _handle_any_string and takes its closing branch
ClosesString ==
    AtChar /\ current_state \in StringStates /\ is_closing_quote(Self)

\* text[k], text[k + 1] spell the two characters a, b
PairAt(text, k, a, b) == text[k] = a /\ text[k + 1] = b

\* the text holds `//` or `/*`
HasSlashOpener(text) ==
    \E k \in 1..(Len(text) - 1) :
        PairAt(text, k, SLASH, SLASH) \/ PairAt(text, k, SLASH, STAR)

\* out is a subsequence of src: greedy left-to-right matching
RECURSIVE IsSubsequence(_, _)
IsSubsequence(out, src) ==
    IF out = <<>> THEN TRUE
    ELSE IF src = <<>> THEN FALSE
    ELSE IF Head(out) = Head(src) THEN IsSubsequence(Tail(out), Tail(src))
    ELSE IsSubsequence(out, Tail(src))

\* the number of newlines in a text
Newlines(text) ==
    Cardinality({k \in 1..Len(text) : text[k] = NEWLINE})

\* the source indices of the newlines of the source
NewlineIndices == {p \in 0..(length - 1) : source[p + 1] = NEWLINE}

\* the index at which the line ended by the newline at index p starts
RECURSIVE LineStart(_)
LineStart(p) ==
    IF p = 0 \/ source[p] = NEWLINE THEN p ELSE LineStart(p - 1)

\* the line ended by the newline at index p consists exclusively of white
\* space and comment text, and is part of a comment or holds one
CommentOnlyLine(p) ==
    /\ \A q \in LineStart(p)..(p - 1) :
           source[q + 1] \in {SPACE, TAB} \/ q \in comment_at
    /\ \E q \in LineStart(p)..p : q \in comment_at

-----------------------------------------------------------------------------
(* The batch drivers: test_project and SwiftCommentRemover.process_directory *)

\* the fields of the remover and the histories of its steps
lexer_vars ==
    <<source, result, i, length, current_state, state_stack, nesting_level,
      current_hash_count, current_quote_count, interpolation_depth,
      brace_depth, bracket_depth, line_had_content, pc, raised, origin,
      calls, prev, openers, literals, comment_at, cut_newlines,
      comment_opened_in, regex_opened_in>>

\* the number of files of a project
MaxFiles == 3

\* what can go wrong with a file: open() for reading raises OSError, read()
\* raises UnicodeDecodeError, the copy into the input folder raises OSError,
\* the open() or write() of the output raises OSError
Faults == {"none", "open", "decode", "copy", "write"}

\* the exception a fault raises
ExceptionOf(fault) ==
    IF fault = "decode" THEN "UnicodeDecodeError" ELSE "OSError"

\* the texts of the files
FileContents == {<<>>, <<"a", SPACE, SLASH, SLASH, "c", NEWLINE>>}

\* a file of a project
FileKinds == [content : FileContents, fault : Faults]

\* a whole call remover.remove_comments(text) on the remover as it is: the
\* assignments before the loop and the loop run to its end; the histories of
\* the single steps start again
Called(text) ==
    LET s == MainLoop(reset(Self, text)) IN
    /\ source' = s.source
    /\ result' = s.result
    /\ i' = s.i
    /\ length' = s.length
    /\ current_state' = s.current_state
    /\ state_stack' = s.state_stack
    /\ nesting_level' = s.nesting_level
    /\ current_hash_count' = s.current_hash_count
    /\ current_quote_count' = s.current_quote_count
    /\ interpolation_depth' = s.interpolation_depth
    /\ brace_depth' = s.brace_depth
    /\ bracket_depth' = s.bracket_depth
    /\ line_had_content' = s.line_had_content
    /\ raised' = s.raised
    /\ origin' = s.origin
    /\ pc' = IF s.raised = "none" THEN "done" ELSE "raised"
    /\ calls' = calls + 1
    /\ prev' = [source |-> source, output |-> Join(result),
                origin |-> CharOrigins(result, origin)]
    /\ openers' = NoOpeners
    /\ literals' = <<>>
    /\ comment_at' = {}
    /\ cut_newlines' = NoNewlines
    /\ comment_opened_in' = None
    /\ regex_opened_in' = None

\* what the call returns
Cleaned(text) == Join(MainLoop(reset(Self, text)).result)

\* the call raises
CallRaises(text) == MainLoop(reset(Self, text)).raised # "none"

\* test_project(project_path) up to its loop: the glob, the early return when
\* no file is found, stats, failed_files and the remover
run_test_project ==
    /\ driver_pc = "idle"
    /\ pc = "idle"
    /\ \E n \in 0..MaxFiles : \E files \in [1..n -> FileKinds] :
           /\ swift_files' = files
           /\ IF files = <<>>
                  THEN driver_pc' = "done" /\ stats' = stats
                  ELSE driver_pc' = "loop" /\ stats' = NewStats(Len(files))
    /\ driver' = "test_project"
    /\ file_no' = 0
    /\ failed_files' = <<>>
    /\ attempted' = <<>>
    /\ UNCHANGED lexer_vars

\* one iteration of the loop of test_project: the try block and its except
\* clause
test_project_file ==
    /\ driver = "test_project"
    /\ driver_pc = "loop"
    /\ file_no < Len(swift_files)
    /\ LET swift_file == swift_files[file_no + 1]
           text == swift_file.content
           called == swift_file.fault \notin {"open", "decode", "copy"}
           failed == swift_file.fault # "none" \/ (called /\ CallRaises(text))
           error == IF swift_file.fault # "none"
                        THEN ExceptionOf(swift_file.fault)
                        ELSE "IndexError"
       IN  /\ IF called THEN Called(text) ELSE UNCHANGED lexer_vars
           /\ stats' =
                  IF failed
                      THEN [stats EXCEPT !.failed = @ + 1]
                      ELSE [stats EXCEPT
                                !.success = @ + 1,
                                !.total_original_size = @ + Len(text),
                                !.total_cleaned_size = @ + Len(Cleaned(text)),
                                !.total_original_lines = @ + Newlines(text),
                                !.total_cleaned_lines =
                                    @ + Newlines(Cleaned(text))]
           /\ failed_files' =
                  IF failed
                      THEN Append(failed_files, <<file_no + 1, error>>)
                      ELSE failed_files
    /\ file_no' = file_no + 1
    /\ attempted' = Append(attempted, file_no + 1)
    /\ UNCHANGED <<driver, swift_files, driver_pc>>

\* test_project after its loop: the summary, whose total_reduction divides
\* by stats['total_original_size']
test_project_summary ==
    /\ driver = "test_project"
    /\ driver_pc = "loop"
    /\ file_no = Len(swift_files)
    /\ driver_pc' = IF stats.success > 0 /\ stats.total_original_size = 0
                        THEN "raised" ELSE "done"
    /\ UNCHANGED <<driver, swift_files, file_no, stats, failed_files,
                   attempted>>
    /\ UNCHANGED lexer_vars

\* process_directory(directory) up to its loop: the glob
run_process_directory ==
    /\ driver_pc = "idle"
    /\ pc = "idle"
    /\ \E n \in 0..MaxFiles : \E files \in [1..n -> FileKinds] :
           swift_files' = files
    /\ driver' = "process_directory"
    /\ driver_pc' = "loop"
    /\ file_no' = 0
    /\ attempted' = <<>>
    /\ UNCHANGED <<stats, failed_files>>
    /\ UNCHANGED lexer_vars

\* one iteration of the loop of process_directory: process_and_save, whose
\* exceptions nothing catches; it makes no copy of the input
process_directory_file ==
    /\ driver = "process_directory"
    /\ driver_pc = "loop"
    /\ file_no < Len(swift_files)
    /\ LET swift_file == swift_files[file_no + 1]
           text == swift_file.content
           called == swift_file.fault \notin {"open", "decode"}
           failed == swift_file.fault \in {"open", "decode", "write"}
                         \/ (called /\ CallRaises(text))
       IN  /\ IF called THEN Called(text) ELSE UNCHANGED lexer_vars
           /\ driver_pc' = IF failed THEN "raised" ELSE "loop"
    /\ file_no' = file_no + 1
    /\ attempted' = Append(attempted, file_no + 1)
    /\ UNCHANGED <<driver, swift_files, stats, failed_files>>

\* process_directory returns when its loop ends
process_directory_return ==
    /\ driver = "process_directory"
    /\ driver_pc = "loop"
    /\ file_no = Len(swift_files)
    /\ driver_pc' = "done"
    /\ UNCHANGED <<driver, swift_files, file_no, stats, failed_files,
                   attempted>>
    /\ UNCHANGED lexer_vars

\* one run of a batch driver over a project
NextDriver ==
    \/ run_test_project
    \/ test_project_file
    \/ test_project_summary
    \/ run_process_directory
    \/ process_directory_file
    \/ process_directory_return

SpecDriver == Init /\ [][NextDriver]_vars

-----------------------------------------------------------------------------
(* Claims *)

\* C1: the output of remove_comments contains no comment: when the output is
\* lexed again by the same state machine (the second call), the lexer never
\* enters the line-comment or block-comment state and never takes the `#`
\* comment branch of an extended regex.
C1_OutputHasNoComment ==
    calls = 2 => current_state \notin CommentStates /\ openers = NoOpeners

\* C2: when a string literal that was opened in IN_INTERPOLATION (inside the
\* parentheses of the interpolation: paren depth >= 1) closes, the
\* lexer is in IN_INTERPOLATION again, with the paren, brace and bracket depths
\* and the stack of saved string contexts that were in effect when the literal
\* opened, also when the literal itself contained an interpolation.
C2_NestedStringReturnsToInterpolation ==
    [][(ClosesString /\ literals # <<>>
            /\ InnermostLiteral.opened_in = "IN_INTERPOLATION"
            /\ InnermostLiteral.depths[1] >= 1)
        => /\ current_state' = "IN_INTERPOLATION"
           /\ <<interpolation_depth', brace_depth', bracket_depth'>>
                  = InnermostLiteral.depths
           /\ state_stack' = InnermostLiteral.stack]_vars

\* C3: when a string literal without interpolation closes, the output from
\* the chunk of its opening delimiter on is the source text from its opening
\* delimiter through its closing delimiter, unchanged and contiguous.
C3_StringLiteralVerbatim ==
    [][(ClosesString /\ literals # <<>> /\ ~InnermostLiteral.interpolated)
        => Join(SubSeq(result', InnermostLiteral.chunk, Len(result')))
               = Slice(source, InnermostLiteral.start, i')]_vars

\* C4: for a source without any comment opener (no `//`, no `/*`, and no `#`
\* comment taken inside an extended regex) remove_comments returns the source.
C4_NoCommentIdentity ==
    (pc = "done" /\ ~HasSlashOpener(source) /\ openers.regex = 0)
        => Output = source

\* the oracle classifies every `/` of the output, at its place in the output,
\* as it classified it at its place in the source of the first call
OracleStable ==
    \A k \in 1..Len(source) :
        source[k] = SLASH =>
            (RegexContextAt(source, k - 1)
                <=> RegexContextAt(prev.source, prev.origin[k]))

\* C5: remove_comments(remove_comments(s)) = remove_comments(s), provided
\* the oracle classifies every `/` that survived the same way in both passes.
C5_Idempotent ==
    (calls = 2 /\ pc = "done" /\ OracleStable) => Output = source

\* C6: the output of remove_comments is a subsequence of its input.
C6_OutputIsSubsequence ==
    pc = "done" => IsSubsequence(Output, source)

\* C7: the output is never longer than the input consumed so far, and so the
\* returned text is no longer than the source.
C7_OutputNoLongerThanConsumed ==
    /\ Len(Output) <= i
    /\ i <= length

\* C7 witness: a call has returned a non-empty text shorter than its source.
C7_Witness ==
    pc = "done" /\ Len(Output) > 0 /\ Len(Output) < length

\* C8 as stated: the newlines of the input minus those of the output is
\* non-negative and is the number of source lines that consist exclusively of
\* whitespace plus a comment.
C8_DeltaIsCommentOnlyLines ==
    pc = "done" =>
        /\ Newlines(source) >= Newlines(Output)
        /\ Newlines(source) - Newlines(Output)
               = Cardinality({p \in NewlineIndices : CommentOnlyLine(p)})

\* C8 as amended: the newlines of the input consumed so far minus those of the
\* output is non-negative and is the number of newlines consumed with a
\* comment: those inside a block comment, plus those that end a line comment
\* or directly follow a closing `*/` while line_had_content is false.
C8_DeltaIsCutNewlines ==
    LET delta == Newlines(Slice(source, 0, i)) - Newlines(Output)
    IN  /\ delta >= 0
        /\ delta = cut_newlines.inside + cut_newlines.after

\* C8 witness: a call has returned after consuming a newline inside a block
\* comment and the newline of a comment-only line, and keeping another one.
C8_Witness ==
    /\ pc = "done"
    /\ cut_newlines.inside > 0
    /\ cut_newlines.after > 0
    /\ Newlines(Output) > 0

\* C9: remove_comments terminates: every iteration of the main loop, the `#`
\* comment branch of the extended regex included, strictly increases the
\* cursor and leaves it at most at the length of the source, and the step
\* taken once the cursor has reached the length is the return (so
\* length - i is a variant that decreases to the return).
C9_CursorAdvancesAndTerminates ==
    [][pc = "loop" =>
          \/ i < length /\ i' > i /\ i' <= length /\ pc' = "loop"
          \/ i >= length /\ pc' = "done"]_vars

\* C9 witness: a call has returned after stripping a comment inside an
\* extended regex that was closed afterwards.
C9_Witness ==
    pc = "done" /\ openers.regex > 0 /\ current_state = "NORMAL"

\* C10: remove_comments never raises: the stack of saved contexts is never
\* popped while empty, the scan of the spaces before a `#` comment never
\* leaves the output buffer, the cursor never leaves the source, and a call
\* whose input ends in a state other than NORMAL returns.
C10_NeverRaises ==
    /\ raised = "none"
    /\ pc # "raised"
    /\ i <= length
    /\ (current_state # "NORMAL" /\ pc = "loop" /\ i >= length => ENABLED Return)

\* C10 witness: a call has returned with the input ended inside an extended
\* regex whose `#` comment was stripped.
C10_Witness ==
    pc = "done" /\ current_state = "EXTENDED_REGEX" /\ openers.regex > 0

\* C11: no lexer state persists across invocations: a call of
\* remove_comments on an instance that an earlier call left in any state
\* returns what the same call returns on a new instance.
C11_ReusedEqualsFresh ==
    (calls = 2 /\ pc = "done") => Output = Join(OnNewInstance(source).result)

\* C11 witness: the earlier call ended inside an interpolation with a frame
\* on the stack, and the call on the reused instance returned a text it had
\* stripped a comment from.
C11_Witness ==
    /\ calls = 2
    /\ pc = "done"
    /\ OnNewInstance(prev.source).current_state = "IN_INTERPOLATION"
    /\ OnNewInstance(prev.source).state_stack # <<>>
    /\ openers.block > 0
    /\ Output # <<>>

\* C12: when a raw string opened with k >= 1 hashes and q quotes closes, the
\* closing delimiter written to the output is q quotes followed by k hashes,
\* and it is the text of the source the closing step consumes.
C12_RawClosingDelimiter ==
    [][(ClosesString /\ current_hash_count >= 1)
        => LET written == result'[Len(result')] IN
           /\ written = Rep(QUOTE, current_quote_count)
                            \o Rep(HASH, current_hash_count)
           /\ written = Slice(source, i, i')]_vars

\* C13: block comments nest: a step taken inside a block comment emits
\* nothing, a `/*` raises the depth by one, a `*/` lowers it by one, any
\* other character leaves it, and the lexer leaves the comment exactly when
\* the depth comes to 0.
C13_BlockCommentsNest ==
    [][(AtChar /\ current_state = "MULTI_LINE_COMMENT")
        => /\ result' = result
           /\ nesting_level >= 1
           /\ nesting_level' =
                  IF i + 1 < length /\ PairAt(source, i + 1, SLASH, STAR)
                      THEN nesting_level + 1
                  ELSE IF i + 1 < length /\ PairAt(source, i + 1, STAR, SLASH)
                      THEN nesting_level - 1
                  ELSE nesting_level
           /\ (nesting_level' >= 1 <=> current_state' = "MULTI_LINE_COMMENT")
           /\ (nesting_level' = 0 <=> current_state' \in CodeStates)]_vars

\* C13 witness: after code, a block comment was opened, a comment nested in
\* it was opened and closed, and the lexer is still inside the outer comment.
C13_Witness ==
    /\ pc = "loop"
    /\ current_state = "MULTI_LINE_COMMENT"
    /\ nesting_level = 1
    /\ result # <<>>
    /\ i >= 6
    /\ PairAt(source, i - 1, STAR, SLASH)
    /\ openers.block = 1

\* the text  code
CodeText == <<"c", "o", "d", "e">>

\* C14: remove_comments applied to `/* /* inner */ outer */ code` returns
\* exactly `code`.
C14_NestedCommentThenCode ==
    (pc = "done" /\ source = S7Text) => Output = CodeText

\* C14 as the code has it: the space between the closing `*/` and the code
\* is kept, the call returns ` code`.
C14_NestedCommentThenSpaceAndCode ==
    (pc = "done" /\ source = S7Text) => Output = <<SPACE>> \o CodeText

\* C14 witness: the call on the text has returned, having opened one block
\* comment.
C14_Witness ==
    pc = "done" /\ source = S7Text /\ openers.block = 1 /\ Output # <<>>

\* the characters after which a `/` opens a regex
PrecedingOperators ==
    {"=", "(", ",", "[", ":", "{", "!", "&", "|", "^", "+", "-", "*", "%",
     "<", ">", "~", ";"}

\* the indices before the cursor that hold no white space
SignificantBefore(text, cursor) ==
    {p \in 0..(cursor - 1) : ~IsSpace(text[p + 1])}

\* the characters ending at index c spell the word, and the character before
\* the word is absent or not alphanumeric
WordEndsAt(text, c, word) ==
    /\ c + 1 >= Len(word)
    /\ \A j \in 1..Len(word) : text[c + 1 - Len(word) + j] = word[j]
    /\ (c + 1 = Len(word) \/ ~IsAlnum(text[c + 1 - Len(word)]))

\* the regex context as the claim states it
StatedRegexContext(text, cursor) ==
    LET before == SignificantBefore(text, cursor) IN
    IF before = {} THEN TRUE
    ELSE LET c == CHOOSE p \in before : \A q \in before : q <= p IN
         \/ text[c + 1] \in PrecedingOperators
         \/ WordEndsAt(text, c, <<"r", "e", "t", "u", "r", "n">>)
         \/ WordEndsAt(text, c, <<"w", "h", "e", "r", "e">>)

\* C15: _is_regex_context returns true if and only if, scanning backward
\* from cursor-1 over white space, the start of the input is reached, or the
\* previous significant character is one of = ( , [ : { ! & | ^ + - * % < >
\* ~ ; , or the characters ending at it spell `return` or `where` and the
\* character before that keyword is absent or not alphanumeric.
C15_OracleAsStated ==
    pc = "loop" => (is_regex_context(Self) <=> StatedRegexContext(source, i))

\* C15 witness: the lexer is inside a regex literal opened by a `/` at which
\* the oracle answered true because `return` precedes it, after it had
\* answered false at an earlier `/` preceded by `return` with a letter in
\* front of the keyword.
C15_Witness ==
    /\ pc = "loop"
    /\ current_state = "REGEX_LITERAL"
    /\ \E a \in 13..i, b \in 20..i :
           /\ a < b
           /\ source[a] = SLASH /\ source[a - 1] = "n"
           /\ ~RegexContextAt(source, a - 1)
           /\ source[b] = SLASH /\ source[b - 1] = "n"
           /\ RegexContextAt(source, b - 1)
           /\ \A k \in 1..i : source[k] = SLASH => k \in {a, b}

\* the three lines whose `/` follows an identifier, a closing `]` and a
\* postfix `++`, each with the trailing comment ` // c`
DivisionTexts ==
    {DivisionAfterIdentifier, DivisionAfterSubscript, DivisionAfterPostfix}

\* C16: a `/` that follows an identifier, a closing `]` or a postfix `++` is
\* division: on `foo / bar`, `a[k] / 2` and `x++ / y` the lexer never enters
\* a regex literal, and the trailing ` // c` of the line is stripped.
C16_DivisionNotRegex ==
    source \in DivisionTexts =>
        /\ current_state # "REGEX_LITERAL"
        /\ pc = "done" => /\ openers.line = 1
                          /\ Output = SubSeq(source, 1, Len(source) - 5)

\* a text without the spaces at its end
RECURSIVE StripSpaces(_)
StripSpaces(text) ==
    IF text # <<>> /\ text[Len(text)] = SPACE
        THEN StripSpaces(SubSeq(text, 1, Len(text) - 1))
        ELSE text

\* the index of the first newline at or after index p, or the length
NextNewline(p) ==
    IF \E q \in p..(length - 1) : source[q + 1] = NEWLINE
        THEN CHOOSE q \in p..(length - 1) :
                 /\ source[q + 1] = NEWLINE
                 /\ \A r \in p..(q - 1) : source[r + 1] # NEWLINE
        ELSE length

\* the `/` at the cursor is followed by at least current_hash_count hashes
AtRegexClose ==
    /\ source[i + 1] = SLASH
    /\ i + current_hash_count < length
    /\ \A j \in 1..current_hash_count : source[i + 1 + j] = HASH

\* the parts of C17 about closing, escapes and the text of a comment: the
\* literal closes exactly at a `/` followed by at least k hashes, writing
\* `/` and k hashes; an escape pair is kept; a `#` discards the input up to
\* the next newline, which the next step meets; a newline is emitted
RegexStepsAsStated ==
    /\ AtRegexClose =>
           /\ current_state' \in CodeStates
           /\ Join(result') = Join(result) \o <<SLASH>>
                                  \o Rep(HASH, current_hash_count)
    /\ ~AtRegexClose => current_state' = "EXTENDED_REGEX"
    /\ (source[i + 1] = BACKSLASH /\ i + 1 < length) =>
           /\ Join(result') = Join(result) \o <<BACKSLASH, source[i + 2]>>
           /\ i' = i + 2
    /\ source[i + 1] = HASH =>
           /\ i' = NextNewline(i)
           /\ Len(Join(result')) <= Len(Join(result))
    /\ source[i + 1] = NEWLINE =>
           /\ Join(result') = Join(result) \o <<NEWLINE>>
           /\ i' = i + 1

\* C17: inside an extended regex opened with k hashes a `#` starts a
\* comment: the spaces already emitted directly before it are removed, the
\* input up to but not including the next newline is discarded, the newline
\* is emitted, an escaped `\#` is kept, and the literal closes only at a `/`
\* followed by at least k hashes.
C17_RegexComment ==
    [][(AtChar /\ current_state = "EXTENDED_REGEX")
        => /\ RegexStepsAsStated
           /\ source[i + 1] = HASH =>
                  Join(result') = StripSpaces(Join(result))]_vars

\* C17 with the spaces the code removes: those emitted one by one, not
\* the space of an escape pair `\ `.
C17_RegexCommentKeepsEscapedSpace ==
    [][(AtChar /\ current_state = "EXTENDED_REGEX")
        => /\ RegexStepsAsStated
           /\ source[i + 1] = HASH =>
                  \E n \in 0..Len(result) :
                      /\ result' = SubSeq(result, 1, n)
                      /\ \A j \in (n + 1)..Len(result) : result[j] = <<SPACE>>
                      /\ n > 0 => result[n] # <<SPACE>>]_vars

\* C17 witness: in `#/\# #` followed by a newline the escaped `\#` was kept,
\* the space before the comment removed, the comment discarded and the
\* newline emitted.
C17_Witness ==
    /\ pc = "loop"
    /\ current_state = "EXTENDED_REGEX"
    /\ openers.regex = 1
    /\ source = <<HASH, SLASH, BACKSLASH, HASH, SPACE, HASH, NEWLINE>>
    /\ Output = <<HASH, SLASH, BACKSLASH, HASH, NEWLINE>>

\* C18: a line or block comment opened in IN_INTERPOLATION state is
\* stripped, and the step that ends it leaves the lexer in IN_INTERPOLATION
\* state again, never in NORMAL.
C18_CommentReturnsToInterpolation ==
    [][(AtChar /\ current_state \in CommentStates
              /\ comment_opened_in = "IN_INTERPOLATION")
        => /\ result' \in {result, Append(result, <<NEWLINE>>)}
           /\ current_state' \notin CommentStates
                  => current_state' = "IN_INTERPOLATION"]_vars

\* the files that fail under the driver, with the exceptions they raise
FailuresOf(files) ==
    LET failing == {k \in 1..Len(files) : files[k].fault # "none"}
        RECURSIVE Listed(_)
        Listed(k) ==
            IF k > Len(files) THEN <<>>
            ELSE (IF k \in failing
                      THEN <<<<k, ExceptionOf(files[k].fault)>>>>
                      ELSE <<>>) \o Listed(k + 1)
    IN  Listed(1)

\* C19: the batch driver continues with the remaining files after one file
\* fails: when it has ended every file was attempted exactly once, each
\* failure is recorded for its file, and success + failed equals the total
\* number of files.
C19_DriverContinues ==
    driver_pc \in {"done", "raised"} =>
        /\ attempted = [k \in 1..Len(swift_files) |-> k]
        /\ driver = "test_project" =>
               /\ stats.success + stats.failed = Len(swift_files)
               /\ failed_files = FailuresOf(swift_files)

\* C20: in every reachable state the lexer is in MULTI_LINE_COMMENT state if
\* and only if nesting_level >= 1, and nesting_level is 0 whenever the state
\* is NORMAL or IN_INTERPOLATION.
C20_BlockStateIffNested ==
    /\ current_state = "MULTI_LINE_COMMENT" <=> nesting_level >= 1
    /\ current_state \in CodeStates => nesting_level = 0

\* C20 witness: a call has returned in NORMAL state after a block comment
\* with a comment nested in it was closed.
C20_Witness ==
    /\ pc = "done"
    /\ current_state = "NORMAL"
    /\ nesting_level = 0
    /\ openers.block = 1
    /\ source = <<"a", SLASH, STAR, SLASH, STAR, STAR, SLASH, STAR, SLASH, "a">>
    /\ Output = <<"a", "a">>

\* C21: in every reachable state, IN_INTERPOLATION state implies that
\* state_stack is not empty and interpolation_depth >= 1.
C21_InterpolationHasFrameAndDepth ==
    current_state = "IN_INTERPOLATION" =>
        state_stack # <<>> /\ interpolation_depth >= 1

\* C22: in every reachable state, NORMAL state implies that state_stack is
\* empty: every frame pushed at a `\(` has been popped before the lexer is
\* in NORMAL state again.
C22_NormalHasEmptyStack ==
    current_state = "NORMAL" => state_stack = <<>>

\* the step leaves IN_INTERPOLATION state for a string state that was open
\* before it (a string opened inside the interpolation adds a literal)
LeavesInterpolation ==
    /\ current_state = "IN_INTERPOLATION"
    /\ current_state' \in StringStates
    /\ Len(literals') = Len(literals)

\* C23: the lexer leaves IN_INTERPOLATION for a string state only at a `)`
\* after which interpolation_depth, brace_depth and bracket_depth are all 0;
\* at that step the top frame is popped and current_state,
\* current_hash_count and current_quote_count become the values in effect
\* when the `\(` of the innermost open string was consumed; a `)` met with
\* a non-zero brace_depth or bracket_depth does not leave IN_INTERPOLATION.
C23_InterpolationExit ==
    [][AtChar /\ current_state = "IN_INTERPOLATION" =>
         /\ LeavesInterpolation =>
                /\ source[i + 1] = RPAREN
                /\ interpolation_depth' = 0
                /\ brace_depth' = 0
                /\ bracket_depth' = 0
                /\ state_stack # <<>>
                /\ state_stack' = SubSeq(state_stack, 1, Len(state_stack) - 1)
                /\ literals # <<>>
                /\ InnermostLiteral.interpolated
                /\ current_state' = InnermostLiteral.mode
                /\ current_hash_count' = InnermostLiteral.hash_count
                /\ current_quote_count' = InnermostLiteral.quote_count
         /\ (source[i + 1] = RPAREN /\ (brace_depth # 0 \/ bracket_depth # 0))
                => current_state' = "IN_INTERPOLATION"]_vars

\* the interpolation of a string nested in the interpolation of a raw string
\* has been left for the nested string, with the raw string's frame still
\* on the stack
C23_Witness ==
    /\ Len(literals) = 2
    /\ InnermostLiteral.exits > 0
    /\ literals[1].hash_count = 1
    /\ current_state = "STRING"
    /\ current_hash_count = 0
    /\ Len(state_stack) = 1

\* the text without the spaces and tabs at its end
RECURSIVE StripBlanks(_)
StripBlanks(text) ==
    IF text # <<>> /\ text[Len(text)] \in {SPACE, TAB}
        THEN StripBlanks(SubSeq(text, 1, Len(text) - 1))
        ELSE text

\* the step recognizes a comment opener in NORMAL or IN_INTERPOLATION state
OpensComment ==
    /\ AtChar
    /\ current_state \in CodeStates
    /\ current_state' \in CommentStates

\* C24: whenever a comment opener is recognized in NORMAL or
\* IN_INTERPOLATION state, the output loses the whole run of spaces and tabs
\* at its end and nothing else, so that right after the opener it does not
\* end in a space or tab.
C24_OpenerTrimsBlanks ==
    [][OpensComment =>
         /\ Join(result') = StripBlanks(Output)
         /\ (result' # <<>> =>
                Join(result')[Len(Join(result'))] \notin {SPACE, TAB})]_vars

\* C24 witness: a line comment has been opened in an interpolation after a
\* newline, a space and a tab, and the output ends in the newline
C24_Witness ==
    /\ current_state = "SINGLE_LINE_COMMENT"
    /\ comment_opened_in = "IN_INTERPOLATION"
    /\ i = 8
    /\ SubSeq(source, 4, 8) = <<NEWLINE, SPACE, SPACE, SLASH, SLASH>>
    /\ Output = <<QUOTE, BACKSLASH, LPAREN, NEWLINE>>

\* the source indices of the characters of the output after the step
OriginsAfter ==
    LET origins == CharOrigins(result', origin')
    IN  {origins[k] : k \in 1..Len(origins)}

\* C25: at the newline that ends a line comment, the newline is emitted if
\* and only if line_had_content, unchanged since the opener, is true; when it
\* is false the newline is consumed and the line leaves no character in the
\* output; the other characters of a line comment emit nothing, so one that
\* reaches the end of the input emits nothing.
C25_LineCommentEnd ==
    [][AtChar /\ current_state = "SINGLE_LINE_COMMENT" =>
         /\ line_had_content' = line_had_content
         /\ i' = i + 1
         /\ IF source[i + 1] = NEWLINE
                THEN /\ current_state' \in CodeStates
                     /\ line_had_content =>
                            Join(result') = Output \o <<NEWLINE>>
                     /\ ~line_had_content =>
                            /\ result' = result
                            /\ OriginsAfter \cap (LineStart(i)..i) = {}
                ELSE /\ current_state' = "SINGLE_LINE_COMMENT"
                     /\ result' = result]_vars

\* C25 witness: the newline of a line holding a space, a tab and a line
\* comment has been consumed, and the output is the newline of the line
\* before it
C25_Witness ==
    /\ pc = "loop"
    /\ i = 6
    /\ SubSeq(source, 1, 6) = <<NEWLINE, SPACE, TAB, SLASH, SLASH, NEWLINE>>
    /\ current_state = "NORMAL"
    /\ ~line_had_content
    /\ Output = <<NEWLINE>>

\* C26: at the `*/` that ends the outermost block comment, the next input
\* character is consumed without being emitted if and only if it is a
\* newline and line_had_content, unchanged since the opener, is false; in
\* every other case the cursor continues at the character directly after
\* the `*/`, in NORMAL or IN_INTERPOLATION state.
C26_BlockCommentEnd ==
    [][AtChar /\ current_state = "MULTI_LINE_COMMENT" =>
         /\ line_had_content' = line_had_content
         /\ result' = result
         /\ current_state' \in CodeStates <=>
                /\ i + 1 < length
                /\ PairAt(source, i + 1, STAR, SLASH)
                /\ nesting_level = 1
         /\ current_state' \in CodeStates =>
                i' = IF /\ i + 2 < length
                        /\ source[i + 3] = NEWLINE
                        /\ ~line_had_content
                         THEN i + 3
                         ELSE i + 2]_vars

\* C26 witness: the newline after the block comment of a line holding a tab
\* and the comment has been consumed, and the output is empty
C26_Witness ==
    /\ pc = "loop"
    /\ i = 6
    /\ SubSeq(source, 1, 6) = <<TAB, SLASH, STAR, STAR, SLASH, NEWLINE>>
    /\ current_state = "NORMAL"
    /\ ~line_had_content
    /\ result = <<>>

\* the characters of the source between the previous newline, or the start
\* of the input, and the cursor
LineBeforeCursor == {source[q + 1] : q \in LineStart(i)..(i - 1)}

\* C27 as stated: line_had_content recorded at a comment opener is true if
\* and only if the source holds a non-whitespace character between the
\* previous newline (or the start of the input) and the opener.
C27_LineHadCodeIffNonWhitespace ==
    [][OpensComment =>
         (line_had_content' <=> \E c \in LineBeforeCursor : ~IsSpace(c))]_vars

\* C27 as the code has it: line_had_content recorded at a comment opener is
\* true if and only if the source (not the output) holds a character other
\* than a space or a tab between the previous newline (or the start of the
\* input) and the opener, and a comment keeps the value recorded at its
\* opener.
C27_LineHadCodeIffNotSpaceOrTab ==
    [][/\ OpensComment =>
            (line_had_content' <=>
                 \E c \in LineBeforeCursor : c \notin {SPACE, TAB})
       /\ (AtChar /\ current_state \in CommentStates) =>
            line_had_content' = line_had_content]_vars

\* C27 witness: a line comment has been opened after a block comment and a
\* space of the same line; the output is empty and line_had_content is true
C27_Witness ==
    /\ current_state = "SINGLE_LINE_COMMENT"
    /\ i = 7
    /\ SubSeq(source, 1, 7)
           = <<SLASH, STAR, STAR, SLASH, SPACE, SLASH, SLASH>>
    /\ result = <<>>
    /\ line_had_content

\* the number of consecutive characters c of the source from index p on
RECURSIVE RunFrom(_, _)
RunFrom(p, c) ==
    IF p < length /\ source[p + 1] = c THEN 1 + RunFrom(p + 1, c) ELSE 0

\* C28: in NORMAL or IN_INTERPOLATION state, a run of k >= 0 hashes followed
\* by a run of q >= 1 quotes opens a string: MULTILINE_STRING with hash count
\* k and quote count q when q >= 3, otherwise STRING with hash count k and
\* quote count 1; the characters consumed are emitted verbatim; and a run of
\* hashes followed by neither a quote nor a `/` in regex context is emitted
\* as ordinary code, one hash a step.
C28_StringOpener ==
    [][AtChar /\ current_state \in CodeStates =>
         LET k == RunFrom(i, HASH)
             q == RunFrom(i + k, QUOTE)
             quotes == IF q >= 3 THEN q ELSE 1
         IN  /\ q >= 1 =>
                 /\ current_state'
                        = IF q >= 3 THEN "MULTILINE_STRING" ELSE "STRING"
                 /\ current_hash_count' = k
                 /\ current_quote_count' = quotes
                 /\ i' = i + k + quotes
                 /\ Join(result') = Output \o Slice(source, i, i')
             /\ (/\ k >= 1
                 /\ q = 0
                 /\ ~(/\ i + k < length
                      /\ source[i + k + 1] = SLASH
                      /\ RegexContextAt(source, i))) =>
                 /\ current_state' = current_state
                 /\ i' = i + 1
                 /\ result' = Append(result, <<HASH>>)]_vars

\* C28 witness: a string with a hash and four quotes has been opened in an
\* interpolation
C28_Witness ==
    /\ current_state = "MULTILINE_STRING"
    /\ current_hash_count = 1
    /\ current_quote_count = 4
    /\ Len(state_stack) = 1
    /\ Len(literals) = 2
    /\ i = length
    /\ Output = source

\* C29: in STRING or MULTILINE_STRING state, a `"` at the cursor that starts
\* a run of q quotes closes the literal if and only if q >= current_quote_count
\* and, when current_hash_count > 0, the q quotes are followed by at least
\* current_hash_count hashes; otherwise exactly one `"` is emitted as content
\* and the state does not change; so `#"a""b"#` closes only at its final `"#`.
C29_ClosingQuote ==
    [][(AtChar /\ current_state \in StringStates /\ source[i + 1] = QUOTE) =>
         LET q == RunFrom(i, QUOTE)
             closing ==
                 /\ q >= current_quote_count
                 /\ current_hash_count > 0 =>
                        RunFrom(i + q, HASH) >= current_hash_count
         IN  /\ closing <=> current_state' \in CodeStates
             /\ ~closing =>
                    /\ current_state' = current_state
                    /\ i' = i + 1
                    /\ result' = Append(result, <<QUOTE>>)
             /\ (source = RawStringText /\ closing) => i = 6]_vars

\* C29 witness: the call on `#"a""b"#` has returned, the literal closed and
\* the quotes inside it kept as content
C29_Witness ==
    /\ pc = "done"
    /\ source = RawStringText
    /\ current_state = "NORMAL"
    /\ literals = <<>>
    /\ SubSeq(Output, 1, 7) = SubSeq(source, 1, 7)

\* the escape state of a string state, and the string state of an escape
\* state
EscapeOf(state) ==
    IF state = "STRING" THEN "STRING_ESCAPE" ELSE "MULTILINE_STRING_ESCAPE"

StringOf(state) ==
    IF state = "STRING_ESCAPE" THEN "STRING" ELSE "MULTILINE_STRING"

\* C30: in STRING or MULTILINE_STRING state, a backslash followed by a
\* character other than `(` is emitted and the lexer enters the escape state
\* of the string state; there the next character is emitted verbatim,
\* whatever it is, and the lexer returns to the same string state;
\* current_hash_count, current_quote_count and state_stack do not change.
C30_Escape ==
    [][/\ (/\ AtChar
           /\ current_state \in StringStates
           /\ source[i + 1] = BACKSLASH
           /\ ~(i + 1 < length /\ source[i + 2] = LPAREN)) =>
              /\ current_state' = EscapeOf(current_state)
              /\ result' = Append(result, <<BACKSLASH>>)
              /\ i' = i + 1
              /\ UNCHANGED <<current_hash_count, current_quote_count,
                             state_stack>>
       /\ (/\ AtChar
           /\ current_state \in {"STRING_ESCAPE", "MULTILINE_STRING_ESCAPE"}) =>
              /\ current_state' = StringOf(current_state)
              /\ result' = Append(result, <<source[i + 1]>>)
              /\ i' = i + 1
              /\ UNCHANGED <<current_hash_count, current_quote_count,
                             state_stack>>]_vars

\* C30 witness: in a multi-line string an escaped quote and an escaped
\* backslash have been emitted, and the `(` after them is content
C30_Witness ==
    /\ current_state = "MULTILINE_STRING"
    /\ current_quote_count = 3
    /\ state_stack = <<>>
    /\ i = 8
    /\ SubSeq(source, 4, 8)
           = <<BACKSLASH, QUOTE, BACKSLASH, BACKSLASH, LPAREN>>
    /\ Output = SubSeq(source, 1, 8)

\* C31: while the lexer is in REGEX_LITERAL state every input character is
\* emitted unchanged and no comment opener is recognized; a backslash and
\* the character after it are emitted together and that character cannot
\* close the literal; the first `/` that is not escaped closes the literal,
\* and the state returns to IN_INTERPOLATION if the literal was opened in
\* an interpolation, else to NORMAL; a newline does not close it.
C31_RegexLiteral ==
    [][(AtChar /\ current_state = "REGEX_LITERAL") =>
         LET escaped == source[i + 1] = BACKSLASH /\ i + 1 < length
             closes == ~escaped /\ source[i + 1] = SLASH
         IN  /\ i' = IF escaped THEN i + 2 ELSE i + 1
             /\ Join(result') = Output \o Slice(source, i, i')
             /\ escaped =>
                    result' = Append(result, <<BACKSLASH, source[i + 2]>>)
             /\ closes <=> current_state' # "REGEX_LITERAL"
             /\ closes => current_state' = regex_opened_in
             /\ current_state' \notin CommentStates]_vars

\* the text a is a prefix of the text b
IsPrefix(a, b) == Len(a) <= Len(b) /\ SubSeq(b, 1, Len(a)) = a

\* the step recognizes the `#` of a comment in EXTENDED_REGEX state
OpensRegexComment ==
    AtChar /\ current_state = "EXTENDED_REGEX" /\ source[i + 1] = HASH

\* C32: the output is append-only: at every step of the main loop the
\* previous output is a prefix of the new output, except at a step that
\* recognizes a comment opener (`//` or `/*` in NORMAL or IN_INTERPOLATION
\* state, `#` in EXTENDED_REGEX state), where the new output is the previous
\* one without some spaces or tabs at its end.
C32_AppendOnly ==
    [][pc = "loop" =>
         IF OpensComment \/ OpensRegexComment
             THEN /\ IsPrefix(Join(result'), Output)
                  /\ \A k \in (Len(Join(result')) + 1)..Len(Output) :
                         Output[k] \in {SPACE, TAB}
             ELSE IsPrefix(Output, Join(result'))]_vars

\* C32 witness: the `#` of a comment in an extended regex literal has been
\* met after two spaces, which are no longer in the output
C32_Witness ==
    /\ pc = "loop"
    /\ current_state = "EXTENDED_REGEX"
    /\ source = <<HASH, SLASH, SPACE, SPACE, HASH>>
    /\ i = 5
    /\ Output = <<HASH, SLASH>>

====
